---- MODULE Spec2Model ----
(***************************************************************************)
(* State-machine model of the real-time synchronisation layer of the       *)
(* frontend-v3 client: the WebSocket client (api/websocket.ts), the        *)
(* workers / queue / history stores and the bootstrap store.               *)
(*                                                                         *)
(* JavaScript is single threaded: every action below is one whole event    *)
(* handler or one whole synchronous call, including the promise            *)
(* continuations (microtasks) it triggers.                                 *)
(***************************************************************************)
EXTENDS Integers, Sequences, FiniteSets, TLC

\* ---------------------------------------------------------------- bounds
\* WebSocket objects alive at the same time (an object whose close event was
\* delivered and that the client no longer references is collected).
MaxSockets == 3
\* Timer handles that can be outstanding at the same time.
MaxTimers == 2
\* Handlers registered with the router (calls of setupWebSocket).
MaxHandlers == 2
\* init() calls whose fetches are in flight at the same time.
MaxInits == 1
\* Fetches in flight at the same time that a view started.
MaxViewFetches == 1
\* Entities the backend knows (workers, tasks).
MaxItem == 1
\* Entries a paged collection shows when one more page is asked for.
MaxTasks == 1
\* deleteTask() calls in flight at the same time.
MaxDeletes == 1

\* ------------------------------------------------------------- constants
Sockets == 1 .. MaxSockets
TimerIds == 1 .. MaxTimers
\* the streams the stores start (workers.ts:73, workers.ts:157)
StreamNames == {"workers_info", "pending_tasks_info"}

VARIABLES
  ws,              \* this.ws: 0 is null, otherwise a socket
  readyState,      \* readyState of every WebSocket object; "NONE": no such object
  isManualClose,   \* this.isManualClose
  reconnectTimer,  \* this.reconnectTimer: 0 is null, otherwise a timer handle
  pendingTimers,   \* timeouts set and neither fired nor cleared (browser state)
  activeStreams,   \* this.activeStreams: a JS Set, kept in insertion order
  messageHandlers, \* this.messageHandlers: message type -> handlers, in order
  workers,         \* workers store: workers
  tasks,           \* queue and history stores: tasks
  totalTasks,      \* queue and history stores: totalTasks
  loading,         \* loading flag of every store
  error,           \* error slot of every store
  reqs,            \* REST requests in flight, each with the call that awaits it
  deletes,         \* queue store: deleteTask requests in flight
  boot,            \* app store: boot
  appError,        \* app store: error
  desired,         \* history: the calls applied as set-add / set-remove
  closedByDisconnect, \* history: sockets disconnect() closed, close event pending
  dropped,         \* history: an open connection was lost and none opened since
  reconnections,   \* history: sockets constructed after such a loss
  initFailed,      \* history: init() calls in flight one of whose fetches failed
  retried,         \* history: init() was started from boot = error, no reset() since
  tx,              \* history: the frames the last step handed to WebSocket.send
  rx,              \* history: the message or REST response the last step received
  calls,           \* history: the handler calls the last step made, in order
  server,          \* history: per socket, the streams running at the backend
  last             \* history: the last operation, its argument and its branch

wsVars == <<ws, readyState, isManualClose, reconnectTimer, pendingTimers,
            activeStreams, messageHandlers>>
storeVars == <<workers, tasks, totalTasks, loading, error, reqs, deletes>>
appVars == <<boot, appError>>
\* the program's own state, without the history variables
progVars == <<wsVars, storeVars, appVars>>
histVars == <<desired, closedByDisconnect, dropped, reconnections, initFailed,
              retried, tx, rx, calls, server, last>>
vars == <<progVars, histVars>>

\* ------------------------------------------------------------- JS helpers
Range(s) == {s[i] : i \in 1 .. Len(s)}

\* Set.prototype.delete on the insertion-ordered representation
SetDelete(s, x) == SelectSeq(s, LAMBDA y : y # x)

\* Set.prototype.add
SetAdd(s, x) == IF x \in Range(s) THEN s ELSE Append(s, x)

\* `start_${stream}` / `stop_${stream}`
Command(verb, stream) == <<verb, stream>>

\* this.ws?.readyState === WebSocket.OPEN
isConnected(w, rs) == w # 0 /\ rs[w] = "OPEN"

\* variant: the frame is handed to the socket whatever its state
MutSendCommandAlways(w, rs, command) == << [sock |-> w, command |-> command] >>

\* sendCommand: the frames it transmits (none when not connected)
sendCommand(w, rs, command) ==
  IF isConnected(w, rs) THEN << [sock |-> w, command |-> command] >> ELSE << >>

RECURSIVE SendEach(_, _, _, _)
\* forEach(stream => this.sendCommand(`<verb>_${stream}`)) in iteration order
SendEach(w, rs, verb, streams) ==
  IF streams = << >> THEN << >>
  ELSE sendCommand(w, rs, Command(verb, Head(streams)))
         \o SendEach(w, rs, verb, Tail(streams))

\* variant: nothing is replayed when a socket opens
MutRestartNothing(w, rs, streams) == << >>

restartStreams(w, rs, streams) == SendEach(w, rs, "start", streams)

\* variant: the set is cleared without telling the backend
MutStopAllSendsNothing(w, rs, streams) == << >>

stopAllStreamsSent(w, rs, streams) == SendEach(w, rs, "stop", streams)

\* ---------------------------------------------------- socket bookkeeping
FreeSlots(rs) == {s \in Sockets : rs[s] = "NONE"}

\* A closed socket the client drops its reference to is garbage.
Release(rs, w) ==
  IF w # 0 /\ rs[w] = "CLOSED" THEN [rs EXCEPT ![w] = "NONE"] ELSE rs

NewSocket(rs) == CHOOSE s \in FreeSlots(rs) : \A t \in FreeSlots(rs) : s <= t

CanConstruct(w, rs) == FreeSlots(Release(rs, w)) # {}

\* WebSocket.close(): CONNECTING and OPEN become CLOSING, the close event follows
closeSocket(rs, w) ==
  IF w # 0 /\ rs[w] \in {"CONNECTING", "OPEN"}
  THEN [rs EXCEPT ![w] = "CLOSING"]
  ELSE rs

\* ------------------------------------------------------------- connect()
\* ctorOk: whether new WebSocket(url) returns (it throws on a URL it rejects).
\* Result: the fields connect() leaves behind and whether it threw.
\* variant: connect() does not look at the state of the current socket
MutConnectIgnoresOpen(w, rs, manual, ctorOk) ==
  IF ~ctorOk
  THEN [ws |-> w, readyState |-> rs, isManualClose |-> FALSE, threw |-> TRUE]
  ELSE IF ~CanConstruct(w, rs)
  THEN [ws |-> w, readyState |-> rs, isManualClose |-> manual, threw |-> FALSE]
  ELSE LET rs1 == Release(rs, w)
           s == NewSocket(rs1)
       IN [ws |-> s, readyState |-> [rs1 EXCEPT ![s] = "CONNECTING"],
           isManualClose |-> FALSE, threw |-> FALSE]

connect(w, rs, manual, ctorOk) ==
  IF isConnected(w, rs)
  THEN [ws |-> w, readyState |-> rs, isManualClose |-> manual, threw |-> FALSE]
  ELSE IF ~ctorOk
  THEN [ws |-> w, readyState |-> rs, isManualClose |-> FALSE, threw |-> TRUE]
  ELSE LET rs1 == Release(rs, w)
           s == NewSocket(rs1)
       IN [ws |-> s, readyState |-> [rs1 EXCEPT ![s] = "CONNECTING"],
           isManualClose |-> FALSE, threw |-> FALSE]

\* connect() can run in this model: it returns at once, or throws, or there is
\* room for one more WebSocket object
ConnectRuns(w, rs, ctorOk) ==
  isConnected(w, rs) \/ ~ctorOk \/ CanConstruct(w, rs)

ConnectNote(w, rs, ctorOk) ==
  IF isConnected(w, rs) THEN "already open"
  ELSE IF ~ctorOk THEN "threw" ELSE "created"

\* ------------------------------------------------------ reconnect timer
NewTimer(pending) ==
  CHOOSE t \in TimerIds \ pending : \A u \in TimerIds \ pending : t <= u

\* scheduleReconnect: [reconnectTimer, pendingTimers] afterwards
MutScheduleAlways(timer, pending) ==
  LET t == NewTimer(pending)
  IN [reconnectTimer |-> t, pendingTimers |-> pending \cup {t}]

scheduleReconnect(timer, pending) ==
  IF timer # 0
  THEN [reconnectTimer |-> timer, pendingTimers |-> pending]
  ELSE LET t == NewTimer(pending)
       IN [reconnectTimer |-> t, pendingTimers |-> pending \cup {t}]

\* if (this.reconnectTimer) { clearTimeout(...); this.reconnectTimer = null }
clearReconnectTimer(timer, pending) ==
  IF timer # 0
  THEN [reconnectTimer |-> 0, pendingTimers |-> pending \ {timer}]
  ELSE [reconnectTimer |-> timer, pendingTimers |-> pending]

\* ------------------------------------------------------- stream registry
MutStopOnlyWhenConnected(streams, open, name) ==
  IF open THEN SetDelete(streams, name) ELSE streams

\* stopStream: the desired set afterwards
stopStreamSet(streams, open, name) == SetDelete(streams, name)

\* startStream: the desired set afterwards
startStreamSet(streams, open, name) ==
  IF name \in Range(streams) THEN streams ELSE SetAdd(streams, name)

\* ------------------------------------------------------ backend's streams
RECURSIVE Received(_, _)
\* history: the backend receives the frames in the order they were sent; a
\* start_<name> starts the stream on that connection, a stop_<name> stops it
Received(srv, frames) ==
  IF frames = << >> THEN srv
  ELSE LET f == Head(frames)
           verb == f.command[1]
           name == f.command[2]
       IN Received(IF f.sock \notin DOMAIN srv THEN srv
                   ELSE IF verb = "start"
                   THEN [srv EXCEPT ![f.sock] = @ \cup {name}]
                   ELSE IF verb = "stop"
                   THEN [srv EXCEPT ![f.sock] = @ \ {name}]
                   ELSE srv,
                   Tail(frames))

\* history: the streams running per socket after a step that sent frames and
\* left the sockets in states rs; a connection that is over has none
Served(srv, frames, rs) ==
  LET got == Received(srv, frames)
  IN [s \in DOMAIN srv |-> IF rs[s] = "OPEN" THEN got[s] ELSE {}]

\* ------------------------------------------------------------ data domains
Stores == {"workers", "queue", "history"}
Paged == {"queue", "history"}
\* routing keys the stores register handlers for (workers.ts:65, workers.ts:147)
MessageTypes == {"workers", "pending_tasks_info"}
\* null of an error slot
Null == "null"
NoData == [kind |-> "none"]

\* an optional JSON field: absent, or present with value x
None == << >>
Some(x) == << x >>

\* x || [] and x || 0 on an optional field
orEmpty(opt) == IF opt = None THEN << >> ELSE opt[1]
orZero(opt) == IF opt = None THEN 0 ELSE opt[1]

\* the collections a response or a push message can carry: the first n
\* entries of the backend's list 1, 2, ...
Pages == {[i \in 1 .. n |-> i] : n \in 0 .. MaxItem}
\* the record count the backend reports next to a page: all its records are
\* on the page
TotalOf(opt) == Len(orEmpty(opt))

\* const pageSize = 50 of the queue and the history view
PageSize == 50
\* the first index a view asks for: the first page, or "load more"
Starts == {0, PageSize}

\* the message type and the stream of a push-capable store (workers.ts:65,73
\* and workers.ts:147,157)
TypeOf(st) == IF st = "workers" THEN "workers" ELSE "pending_tasks_info"
StreamOf(st) == IF st = "workers" THEN "workers_info" ELSE "pending_tasks_info"
\* variant: the catch block leaves the error slot as it is (null)
MutErrorOfLeavesNull(st) == Null

ErrorOf(st) ==
  IF st = "workers" THEN "Failed to fetch workers"
  ELSE IF st = "queue" THEN "Failed to fetch queue"
  ELSE "Failed to fetch history"

Last(op, arg, note) == [op |-> op, arg |-> arg, note |-> note, then |-> ""]

Init ==
  /\ ws = 0
  /\ readyState = [s \in Sockets |-> "NONE"]
  /\ isManualClose = FALSE
  /\ reconnectTimer = 0
  /\ pendingTimers = {}
  /\ activeStreams = << >>
  /\ messageHandlers = [t \in MessageTypes |-> << >>]
  /\ workers = << >>
  /\ tasks = [st \in Paged |-> << >>]
  /\ totalTasks = [st \in Paged |-> 0]
  /\ loading = [st \in Stores |-> FALSE]
  /\ error = [st \in Stores |-> Null]
  /\ reqs = {}
  /\ deletes = {}
  /\ boot = "idle"
  /\ appError = ""
  /\ desired = {}
  /\ closedByDisconnect = {}
  /\ dropped = FALSE
  /\ reconnections = {}
  /\ initFailed = {}
  /\ retried = FALSE
  /\ tx = << >>
  /\ calls = << >>
  /\ server = [s \in Sockets |-> {}]
  /\ rx = NoData
  /\ last = Last("start", 0, "")

\* history: the sockets that are reconnections, after a connect() that had the
\* result c
Reconnections(c, note) ==
  IF note = "created"
  THEN IF dropped THEN reconnections \cup {c.ws} ELSE reconnections \ {c.ws}
  ELSE reconnections

\* --------------------------------------------------- WebSocket client API
\* wsClient.connect(), called by a view's onMounted
Connect(ctorOk) ==
  /\ ConnectRuns(ws, readyState, ctorOk)
  /\ LET c == connect(ws, readyState, isManualClose, ctorOk)
     IN /\ ws' = c.ws
        /\ readyState' = c.readyState
        /\ isManualClose' = c.isManualClose
        /\ reconnections' =
             Reconnections(c, ConnectNote(ws, readyState, ctorOk))
  /\ tx' = << >>
  /\ calls' = << >>
  /\ rx' = NoData
  /\ last' = Last("connect", 0, ConnectNote(ws, readyState, ctorOk))
  /\ UNCHANGED <<reconnectTimer, pendingTimers, activeStreams, messageHandlers>>
  /\ UNCHANGED <<storeVars, appVars>>
  /\ UNCHANGED <<desired, closedByDisconnect, dropped, initFailed, retried>>
  /\ server' = Served(server, tx', readyState')

\* wsClient.disconnect()
Disconnect ==
  LET c == clearReconnectTimer(reconnectTimer, pendingTimers)
      closing == ws # 0 /\ readyState[ws] \in {"CONNECTING", "OPEN"}
  IN /\ isManualClose' = TRUE
     /\ reconnectTimer' = c.reconnectTimer
     /\ pendingTimers' = c.pendingTimers
     /\ tx' = stopAllStreamsSent(ws, readyState, activeStreams)
     /\ activeStreams' = << >>
     /\ readyState' = Release(closeSocket(readyState, ws), ws)
     /\ ws' = 0
     /\ desired' = {}
     /\ closedByDisconnect' =
          IF closing THEN closedByDisconnect \cup {ws} ELSE closedByDisconnect
     /\ dropped' = FALSE
     /\ reconnections' = {}
     /\ calls' = << >>
     /\ rx' = NoData
     /\ last' = Last("disconnect", ws,
                     IF reconnectTimer # 0 THEN "timer cleared" ELSE "no timer")
     /\ UNCHANGED <<messageHandlers, storeVars, appVars, initFailed, retried>>
     /\ server' = Served(server, tx', readyState')

\* wsClient.startStream(name)
StartStream(name) ==
  LET has == name \in Range(activeStreams)
  IN /\ activeStreams' =
          startStreamSet(activeStreams, isConnected(ws, readyState), name)
     /\ tx' = IF has THEN << >>
              ELSE sendCommand(ws, readyState, Command("start", name))
     /\ desired' = desired \cup {name}
     /\ calls' = << >>
     /\ rx' = NoData
     /\ last' = Last("startStream", name, IF has THEN "duplicate" ELSE "added")
     /\ UNCHANGED <<ws, readyState, isManualClose, reconnectTimer, pendingTimers,
                    messageHandlers>>
     /\ UNCHANGED <<storeVars, appVars>>
     /\ UNCHANGED <<closedByDisconnect, dropped, reconnections, initFailed,
                    retried>>
     /\ server' = Served(server, tx', readyState')

\* wsClient.stopStream(name)
StopStream(name) ==
  /\ activeStreams' =
       stopStreamSet(activeStreams, isConnected(ws, readyState), name)
  /\ tx' = sendCommand(ws, readyState, Command("stop", name))
  /\ desired' = desired \ {name}
  /\ calls' = << >>
  /\ rx' = NoData
  /\ last' = Last("stopStream", name,
                  IF name \in Range(activeStreams) THEN "removed" ELSE "absent")
  /\ UNCHANGED <<ws, readyState, isManualClose, reconnectTimer, pendingTimers,
                 messageHandlers>>
  /\ UNCHANGED <<storeVars, appVars>>
  /\ UNCHANGED <<closedByDisconnect, dropped, reconnections, initFailed,
                 retried>>
  /\ server' = Served(server, tx', readyState')

\* ids of frontend messages the application may dismiss
MessageIds == {"m1"}

\* sendCommand('dismiss_message', { message_id: messageId }) as a frame
DismissCommand(messageId) == <<"dismiss_message", messageId>>

\* wsClient.dismissMessage(messageId)
DismissMessage(messageId) ==
  /\ tx' = sendCommand(ws, readyState, DismissCommand(messageId))
  /\ calls' = << >>
  /\ rx' = NoData
  /\ last' = Last("dismissMessage", messageId,
                  IF isConnected(ws, readyState) THEN "sent" ELSE "dropped")
  /\ UNCHANGED <<wsVars, storeVars, appVars>>
  /\ UNCHANGED <<desired, closedByDisconnect, dropped, reconnections, initFailed,
                 retried>>
  /\ server' = Served(server, tx', readyState')

\* ------------------------------------------------ timer and socket events
\* the setTimeout callback of scheduleReconnect
TimerFire(t, ctorOk) ==
  /\ t \in pendingTimers
  /\ ConnectRuns(ws, readyState, ctorOk)
  /\ pendingTimers' = pendingTimers \ {t}
  /\ reconnectTimer' = 0
  /\ LET c == connect(ws, readyState, isManualClose, ctorOk)
     IN /\ ws' = c.ws
        /\ readyState' = c.readyState
        /\ isManualClose' = c.isManualClose
        /\ reconnections' =
             Reconnections(c, ConnectNote(ws, readyState, ctorOk))
  /\ tx' = << >>
  /\ calls' = << >>
  /\ rx' = NoData
  /\ last' = Last("timer", t, ConnectNote(ws, readyState, ctorOk))
  /\ UNCHANGED <<activeStreams, messageHandlers, storeVars, appVars>>
  /\ UNCHANGED <<desired, closedByDisconnect, dropped, initFailed, retried>>
  /\ server' = Served(server, tx', readyState')

\* ws.onopen of socket s
SockOpen(s) ==
  /\ readyState[s] = "CONNECTING"
  /\ readyState' = [readyState EXCEPT ![s] = "OPEN"]
  /\ LET c == clearReconnectTimer(reconnectTimer, pendingTimers)
     IN /\ reconnectTimer' = c.reconnectTimer
        /\ pendingTimers' = c.pendingTimers
  /\ tx' = restartStreams(ws, readyState', activeStreams)
  /\ dropped' = FALSE
  /\ calls' = << >>
  /\ rx' = NoData
  /\ last' = Last("onopen", s,
                  IF s \in reconnections THEN "reconnection" ELSE "connection")
  /\ UNCHANGED <<ws, isManualClose, activeStreams, messageHandlers>>
  /\ UNCHANGED <<storeVars, appVars>>
  /\ UNCHANGED <<desired, closedByDisconnect, reconnections, initFailed,
                 retried>>
  /\ server' = Served(server, tx', readyState')

\* ws.onclose of socket s: the connection failed, was lost, or finished closing
SockClose(s) ==
  /\ readyState[s] \in {"CONNECTING", "OPEN", "CLOSING"}
  /\ TimerIds \ pendingTimers # {}
  /\ readyState' = [readyState EXCEPT ![s] = IF ws = s THEN "CLOSED" ELSE "NONE"]
  /\ LET c == IF ~isManualClose
              THEN scheduleReconnect(reconnectTimer, pendingTimers)
              ELSE [reconnectTimer |-> reconnectTimer,
                    pendingTimers |-> pendingTimers]
     IN /\ reconnectTimer' = c.reconnectTimer
        /\ pendingTimers' = c.pendingTimers
  /\ closedByDisconnect' = closedByDisconnect \ {s}
  /\ dropped' = (dropped \/ readyState[s] = "OPEN")
  /\ reconnections' = reconnections \ {s}
  /\ tx' = << >>
  /\ calls' = << >>
  /\ rx' = NoData
  /\ last' = Last("onclose", s,
                  IF isManualClose THEN "manual"
                  ELSE IF reconnectTimer # 0 THEN "timer pending"
                  ELSE "scheduled")
  /\ UNCHANGED <<ws, isManualClose, activeStreams, messageHandlers>>
  /\ UNCHANGED <<storeVars, appVars, desired, initFailed, retried>>
  /\ server' = Served(server, tx', readyState')

\* ----------------------------------------------------- message router
\* variant: the handler adds the pushed workers to the ones it has
MutWorkersHandlerMerge(w, m) == IF m.body # None THEN w \o m.body[1] ELSE w

\* the handler setupWebSocket of the workers store registers
workersHandler(w, m) == IF m.body # None THEN m.body[1] ELSE w

\* the handler setupWebSocket of the queue store registers: tasks, totalTasks
queueHandlerTasks(tk, m) ==
  IF m.body # None THEN orEmpty(m.body[1].results) ELSE tk

queueHandlerTotal(n, m) ==
  IF m.body # None THEN orZero(m.body[1].recordsTotal) ELSE n

\* one handler call on the stores' data d = [workers, tasks, totalTasks]
handle(h, d, m) ==
  IF h = "workers"
  THEN [d EXCEPT !.workers = workersHandler(d.workers, m)]
  ELSE [d EXCEPT !.tasks = [@ EXCEPT !.queue = queueHandlerTasks(@, m)],
                 !.totalTasks = [@ EXCEPT !.queue = queueHandlerTotal(@, m)]]

\* a handler registered through on() by other code than the stores, one that
\* throws when it is called
Thrower == "thrower"

Throws(h) == h = Thrower

\* index of the last handler forEach calls: an exception a handler throws
\* leaves forEach at once, for the catch block of onmessage
LastCalled(handlers) ==
  IF \E i \in 1 .. Len(handlers) : Throws(handlers[i])
  THEN CHOOSE i \in 1 .. Len(handlers) :
         /\ Throws(handlers[i])
         /\ \A j \in 1 .. i - 1 : ~Throws(handlers[j])
  ELSE Len(handlers)

RECURSIVE dispatch(_, _, _)
\* handlers.forEach(handler => handler(message))
dispatch(handlers, d, m) ==
  IF handlers = << >> THEN d
  ELSE IF Throws(Head(handlers)) THEN d
  ELSE dispatch(Tail(handlers), handle(Head(handlers), d, m), m)

\* variant: a frame without a usable type goes to the workers handlers
MutHandlersForDefault(mh, m) ==
  IF m.type \in DOMAIN mh THEN mh[m.type] ELSE mh["workers"]

\* variant: only the handler registered first is called
MutHandlersForFirstOnly(mh, m) ==
  IF m.type \in DOMAIN mh /\ mh[m.type] # << >>
  THEN << mh[m.type][1] >> ELSE << >>

\* this.messageHandlers.get(message.type) || [], for a frame that parses and
\* carries a type; none for any other frame
handlersFor(mh, m) == IF m.type \in DOMAIN mh THEN mh[m.type] ELSE << >>

\* push messages of the two streams: the payload field may be absent, and so
\* may the fields of pending_tasks_info
WorkersMessages(pages) ==
  {[type |-> "workers", body |-> b] : b \in {None} \cup {Some(p) : p \in pages}}

QueueInfos(pages) ==
  UNION {{[results |-> r, recordsTotal |-> n] : n \in {None, Some(TotalOf(r))}} :
           r \in {None} \cup {Some(p) : p \in pages}}

QueueMessages(pages) ==
  {[type |-> "pending_tasks_info", body |-> b] :
     b \in {None} \cup {Some(i) : i \in QueueInfos(pages)}}

\* frames that do not parse, and frames without a type
Unroutable == {[type |-> "(malformed)", body |-> None],
               [type |-> "(none)", body |-> None]}

\* history: the calls handlers.forEach(handler => handler(message)) makes, in
\* order: forEach visits the indices of the array in ascending order, once each
invoked(handlers, m) ==
  [i \in 1 .. LastCalled(handlers) |->
     [handler |-> handlers[i], index |-> i, message |-> m]]

\* history: the collection and the total a push message carries
PayloadOf(m) ==
  IF m.type = "workers"
  THEN [data |-> m.body[1], total |-> 0]
  ELSE [data |-> orEmpty(m.body[1].results),
        total |-> orZero(m.body[1].recordsTotal)]

\* ws.onmessage of socket s with frame m
SockMessage(s, m) ==
  /\ readyState[s] = "OPEN"
  /\ LET hs == handlersFor(messageHandlers, m)
         d == dispatch(hs, [workers |-> workers, tasks |-> tasks,
                            totalTasks |-> totalTasks], m)
     IN /\ workers' = d.workers
        /\ tasks' = d.tasks
        /\ totalTasks' = d.totalTasks
        /\ last' = Last("onmessage", m.type,
                        IF m \in Unroutable THEN "discarded"
                        ELSE IF hs = << >> THEN "no handler"
                        ELSE IF m.body = None THEN "no payload"
                        ELSE "applied")
  /\ calls' = invoked(handlersFor(messageHandlers, m), m)
  /\ rx' = IF m.body = None THEN NoData ELSE PayloadOf(m)
  /\ tx' = << >>
  /\ UNCHANGED <<wsVars, loading, error, reqs, deletes, appVars>>
  /\ UNCHANGED <<desired, closedByDisconnect, dropped, reconnections, initFailed,
                 retried>>
  /\ server' = Served(server, tx', readyState')

\* handlers registered, over all message types
Registered(mh) == Len(mh["workers"]) + Len(mh["pending_tasks_info"])

\* wsClient.on(messageType, handler) with a handler that throws
On(messageType) ==
  /\ Registered(messageHandlers) < MaxHandlers
  /\ messageHandlers' = [messageHandlers EXCEPT ![messageType] = Append(@, Thrower)]
  /\ tx' = << >>
  /\ calls' = << >>
  /\ rx' = NoData
  /\ last' = Last("on", messageType, "")
  /\ UNCHANGED <<ws, readyState, isManualClose, reconnectTimer, pendingTimers,
                 activeStreams>>
  /\ UNCHANGED <<storeVars, appVars>>
  /\ UNCHANGED <<desired, closedByDisconnect, dropped, reconnections, initFailed,
                 retried>>
  /\ server' = Served(server, tx', readyState')

\* setupWebSocket() of the workers or the queue store
SetupWebSocket(st) ==
  LET name == StreamOf(st)
      has == name \in Range(activeStreams)
  IN /\ Registered(messageHandlers) < MaxHandlers
     /\ messageHandlers' =
          [messageHandlers EXCEPT ![TypeOf(st)] = Append(@, st)]
     /\ activeStreams' =
          startStreamSet(activeStreams, isConnected(ws, readyState), name)
     /\ tx' = IF has THEN << >>
              ELSE sendCommand(ws, readyState, Command("start", name))
     /\ desired' = desired \cup {name}
     /\ calls' = << >>
     /\ rx' = NoData
     /\ last' = Last("setupWebSocket", st, IF has THEN "duplicate" ELSE "added")
     /\ UNCHANGED <<ws, readyState, isManualClose, reconnectTimer, pendingTimers>>
     /\ UNCHANGED <<storeVars, appVars>>
     /\ UNCHANGED <<closedByDisconnect, dropped, reconnections, initFailed,
                    retried>>
     /\ server' = Served(server, tx', readyState')

\* ------------------------------------------------------ stores: REST path
\* REST responses: a failure, or a page and (queue, history) a total, either
\* of which the body may lack
Responses(st, pages) ==
  {[ok |-> FALSE, data |-> None, total |-> None]}
    \cup UNION {{[ok |-> TRUE, data |-> d, total |-> n] :
                    n \in IF st = "workers" THEN {None}
                          ELSE {None, Some(TotalOf(d))}} :
                   d \in {None} \cup {Some(p) : p \in pages}}

\* fetchWorkers, fetchQueue, fetchHistory on a successful response: the
\* collection afterwards
fetchWorkersOk(w, resp) == orEmpty(resp.data)

fetchQueueOk(tk, start, resp) == orEmpty(resp.data)

\* variant: the first page is appended too
MutFetchHistoryAlwaysAppends(tk, start, resp) == tk \o orEmpty(resp.data)

fetchHistoryOk(tk, start, resp) ==
  IF start = 0 THEN orEmpty(resp.data) ELSE tk \o orEmpty(resp.data)

FreeOwner(kind, max) ==
  {k \in 1 .. max : \A r \in reqs : r.owner # <<kind, k>>}

\* a view (or a store action that re-fetches) calls fetchWorkers, fetchQueue
\* or fetchHistory: the part before the await
Fetch(st, start) ==
  /\ FreeOwner("view", MaxViewFetches) # {}
  /\ st = "workers" => start = 0
  /\ start > 0 => Len(tasks[st]) <= MaxTasks
  /\ LET k == CHOOSE k \in FreeOwner("view", MaxViewFetches) :
                \A j \in FreeOwner("view", MaxViewFetches) : k <= j
     IN reqs' = reqs \cup {[store |-> st, owner |-> <<"view", k>>,
                            start |-> start]}
  /\ loading' = [loading EXCEPT ![st] = TRUE]
  /\ error' = [error EXCEPT ![st] = Null]
  /\ tx' = << >>
  /\ calls' = << >>
  /\ rx' = NoData
  /\ last' = Last("fetch", st, "view")
  /\ UNCHANGED <<wsVars, workers, tasks, totalTasks, deletes, appVars>>
  /\ UNCHANGED <<desired, closedByDisconnect, dropped, reconnections, initFailed,
                 retried>>
  /\ server' = Served(server, tx', readyState')

\* ------------------------------------------------------ queue: deleteTask
\* the ids deleteTask is called with: the backend's tasks
TaskIds == 1 .. MaxItem

\* variant: the count is left as it is
MutDeleteKeepsTotal(n) == n

\* tasks.value.filter(t => t.id !== taskId) and totalTasks.value--
deleteTaskTasks(tk, id) == SelectSeq(tk, LAMBDA x : x # id)

deleteTaskTotal(n) == n - 1

FreeDeletes == {k \in 1 .. MaxDeletes : \A d \in deletes : d.k # k}

\* queueStore.deleteTask(id), up to its await; no further call is explored
\* once the count has gone below zero
DeleteTask(id) ==
  /\ FreeDeletes # {}
  /\ totalTasks.queue >= 0
  /\ LET k == CHOOSE k \in FreeDeletes : \A j \in FreeDeletes : k <= j
     IN deletes' = deletes \cup {[k |-> k, id |-> id]}
  /\ tx' = << >>
  /\ calls' = << >>
  /\ rx' = NoData
  /\ last' = Last("deleteTask", id, "")
  /\ UNCHANGED <<wsVars, workers, tasks, totalTasks, loading, error, reqs,
                 appVars>>
  /\ UNCHANGED <<desired, closedByDisconnect, dropped, reconnections, initFailed,
                 retried>>
  /\ server' = Served(server, tx', readyState')

\* the backend answers the delete request d: the rest of deleteTask
DeleteDone(d, ok) ==
  /\ d \in deletes
  /\ deletes' = deletes \ {d}
  /\ tasks' = IF ok THEN [tasks EXCEPT !.queue = deleteTaskTasks(@, d.id)]
              ELSE tasks
  /\ totalTasks' = IF ok THEN [totalTasks EXCEPT !.queue = deleteTaskTotal(@)]
                   ELSE totalTasks
  /\ error' = IF ok THEN error
              ELSE [error EXCEPT !.queue = "Failed to delete task"]
  /\ tx' = << >>
  /\ calls' = << >>
  /\ rx' = NoData
  /\ last' = Last("deleteDone", d.id, IF ok THEN "ok" ELSE "failed")
  /\ UNCHANGED <<wsVars, workers, loading, reqs, appVars>>
  /\ UNCHANGED <<desired, closedByDisconnect, dropped, reconnections, initFailed,
                 retried>>
  /\ server' = Served(server, tx', readyState')

\* ------------------------------------------------------------- bootstrap
\* variant: the guard lets init() through while ready
MutInitBlockedLoadingOnly(b) == b = "loading"

\* variant: the guard lets init() through only from idle
MutInitBlockedNotIdle(b) == b # "idle"

\* the guard of init()
initBlocked(b) == b \in {"loading", "ready"}

\* variant: init() sets ready without calling connect()
MutResumeWithoutConnect(w, rs, manual, ctorOk) ==
  [ws |-> w, readyState |-> rs, isManualClose |-> manual, threw |-> FALSE]

\* init() after Promise.all resolved: wsClient.connect(), then boot = 'ready'
initResume(w, rs, manual, ctorOk) == connect(w, rs, manual, ctorOk)

FreeInits == {k \in 1 .. MaxInits : \A r \in reqs : r.owner # <<"init", k>>}

\* app.init(), up to its await
AppInit ==
  IF initBlocked(boot)
  THEN /\ last' = Last("init", 0, "no-op")
       /\ tx' = << >>
       /\ calls' = << >>
       /\ rx' = NoData
       /\ UNCHANGED progVars
       /\ UNCHANGED <<desired, closedByDisconnect, dropped, reconnections,
                      initFailed, retried>>
       /\ server' = Served(server, tx', readyState')
  ELSE /\ FreeInits # {}
       /\ LET k == CHOOSE k \in FreeInits : \A j \in FreeInits : k <= j
          IN /\ reqs' = reqs \cup {[store |-> st, owner |-> <<"init", k>>,
                                    start |-> 0] : st \in Stores}
             /\ last' = Last("init", k,
                             IF boot = "error" THEN "retry" ELSE "started")
       /\ boot' = "loading"
       /\ appError' = ""
       /\ loading' = [st \in Stores |-> TRUE]
       /\ error' = [st \in Stores |-> Null]
       /\ retried' = (boot = "error")
       /\ tx' = << >>
       /\ calls' = << >>
       /\ rx' = NoData
       /\ UNCHANGED <<wsVars, workers, tasks, totalTasks, deletes>>
       /\ UNCHANGED <<desired, closedByDisconnect, dropped, reconnections,
                      initFailed>>
       /\ server' = Served(server, tx', readyState')

\* app.reset()
AppReset ==
  /\ boot' = "idle"
  /\ appError' = ""
  /\ retried' = FALSE
  /\ tx' = << >>
  /\ calls' = << >>
  /\ rx' = NoData
  /\ last' = Last("reset", 0, "")
  /\ UNCHANGED <<wsVars, storeVars>>
  /\ UNCHANGED <<desired, closedByDisconnect, dropped, reconnections, initFailed>>
  /\ server' = Served(server, tx', readyState')

\* The response to request r arrives: the rest of the fetch (try / catch /
\* finally) and, when r was the last fetch an init() call awaited, the rest of
\* that init().
FetchDone(r, resp, ctorOk) ==
  LET st == r.store
      byInit == r.owner[1] = "init"
      ends == byInit /\ \A q \in reqs \ {r} : q.owner # r.owner
      failed == byInit /\ (r.owner[2] \in initFailed \/ ~resp.ok)
      c == initResume(ws, readyState, isManualClose, ctorOk)
      note == ConnectNote(ws, readyState, ctorOk)
  IN /\ r \in reqs
     /\ reqs' = reqs \ {r}
     /\ workers' = IF resp.ok /\ st = "workers"
                   THEN fetchWorkersOk(workers, resp) ELSE workers
     /\ tasks' = IF resp.ok /\ st = "queue"
                 THEN [tasks EXCEPT ![st] = fetchQueueOk(@, r.start, resp)]
                 ELSE IF resp.ok /\ st = "history"
                 THEN [tasks EXCEPT ![st] = fetchHistoryOk(@, r.start, resp)]
                 ELSE tasks
     /\ totalTasks' = IF resp.ok /\ st \in Paged
                      THEN [totalTasks EXCEPT ![st] = orZero(resp.total)]
                      ELSE totalTasks
     /\ error' = IF resp.ok THEN error ELSE [error EXCEPT ![st] = ErrorOf(st)]
     /\ loading' = [loading EXCEPT ![st] = FALSE]
     /\ IF ends
        THEN /\ ConnectRuns(ws, readyState, ctorOk)
             /\ ws' = c.ws
             /\ readyState' = c.readyState
             /\ isManualClose' = c.isManualClose
             /\ reconnections' = Reconnections(c, note)
             /\ boot' = IF c.threw THEN "error" ELSE "ready"
             /\ appError' = IF c.threw THEN "SyntaxError" ELSE appError
        ELSE /\ ctorOk
             /\ UNCHANGED <<ws, readyState, isManualClose, reconnections, boot,
                            appError>>
     /\ initFailed' = IF ends THEN initFailed \ {r.owner[2]}
                      ELSE IF failed THEN initFailed \cup {r.owner[2]}
                      ELSE initFailed
     /\ tx' = << >>
     /\ calls' = << >>
     /\ rx' = IF resp.ok
              THEN [data |-> orEmpty(resp.data), total |-> orZero(resp.total)]
              ELSE NoData
     /\ last' = [op |-> "fetchDone", arg |-> st,
                 note |-> IF resp.ok THEN "ok" ELSE "failed",
                 then |-> IF ~ends THEN ""
                          ELSE IF failed THEN "init ends, a fetch failed"
                          ELSE "init ends, all fetched"]
     /\ UNCHANGED <<reconnectTimer, pendingTimers, activeStreams, messageHandlers>>
     /\ UNCHANGED <<deletes, desired, closedByDisconnect, dropped, retried>>
     /\ server' = Served(server, tx', readyState')

\* --------------------------------------------------------- the WS client
\* The client on its own, its API called in any order. The URL the constructor
\* builds (websocket.ts:29-33) is one new WebSocket() accepts.
UrlAccepted == {TRUE}

NextWS ==
  \/ \E ctorOk \in UrlAccepted : Connect(ctorOk)
  \/ Disconnect
  \/ \E name \in StreamNames : StartStream(name)
  \/ \E name \in StreamNames : StopStream(name)
  \/ \E t \in TimerIds, ctorOk \in UrlAccepted : TimerFire(t, ctorOk)
  \/ \E s \in Sockets : SockOpen(s)
  \/ \E s \in Sockets : SockClose(s)

SpecWS == Init /\ [][NextWS]_vars

\* ----------------------------------------------------------- bootstrap
\* The bootstrap store on its own: init() and reset() called in any order and
\* the REST responses. The connections init() makes stay connecting: their
\* events are the client's, not the bootstrap's.
\* The backend has no workers and no tasks yet; any fetch may fail; the
\* WebSocket constructor may throw (the statement of init()'s try block that
\* can).
BootPages == {<< >>}

NextBoot ==
  \/ AppInit
  \/ AppReset
  \/ \E r \in reqs, ctorOk \in BOOLEAN :
       \E resp \in Responses(r.store, BootPages) :
         (resp.ok => resp.data # None /\ (r.store \in Paged => resp.total # None))
           /\ FetchDone(r, resp, ctorOk)

SpecBoot == Init /\ [][NextBoot]_vars

\* ------------------------------------------------------- the application
\* The application as it is wired up: App.vue calls init() on mount and on
\* Retry (nothing calls reset()), the views call the stores' setupWebSocket
\* when they mount.
NextApp ==
  \/ AppInit
  \/ \E r \in reqs, ctorOk \in BOOLEAN :
       \E resp \in Responses(r.store, BootPages) :
         (resp.ok => resp.data # None /\ (r.store \in Paged => resp.total # None))
           /\ FetchDone(r, resp, ctorOk)
  \/ \E st \in {"workers", "queue"} : SetupWebSocket(st)
  \/ \E s \in Sockets : SockOpen(s)

SpecApp == Init /\ [][NextApp]_vars

\* ------------------------------------------------------------ the stores
\* The workers and queue stores with both inbound paths: fetches of the first
\* page started by views, their responses, and push messages on the
\* connection, which is opened once.
NextStore ==
  \/ \E st \in {"workers", "queue"} : Fetch(st, 0)
  \/ \E r \in reqs : \E resp \in Responses(r.store, Pages) :
       FetchDone(r, resp, TRUE)
  \/ \E st \in {"workers", "queue"} : SetupWebSocket(st)
  \/ \E ctorOk \in UrlAccepted : ws = 0 /\ Connect(ctorOk)
  \/ \E s \in Sockets : SockOpen(s)
  \/ \E s \in Sockets : \E m \in WorkersMessages(Pages) : SockMessage(s, m)
  \/ \E s \in Sockets :
       \E m \in QueueMessages(Pages) : SockMessage(s, m)

SpecStore == Init /\ [][NextStore]_vars

\* ------------------------------------------------------ the paged stores
\* The queue and history stores as the queue and history views drive them:
\* first page and "load more" fetches, one at a time (the buttons are
\* disabled while loading), their responses, deleteTask and its response.
NextPaged ==
  \/ \E st \in Paged, start \in Starts : reqs = {} /\ Fetch(st, start)
  \/ \E r \in reqs : \E resp \in Responses(r.store, Pages) :
       FetchDone(r, resp, TRUE)
  \/ \E id \in TaskIds : DeleteTask(id)
  \/ \E d \in deletes, ok \in BOOLEAN : DeleteDone(d, ok)

SpecPaged == Init /\ [][NextPaged]_vars

\* ------------------------------------------------------------ commands
\* The client on its own as above, with dismissMessage() among the calls.
NextCommands ==
  \/ NextWS
  \/ \E messageId \in MessageIds : DismissMessage(messageId)

SpecCommands == Init /\ [][NextCommands]_vars

\* ------------------------------------------------------ inbound frames
\* The client with the workers store's handler attached: connect() and
\* disconnect() called in any order, setupWebSocket() of the workers store,
\* sockets opening, and workers frames arriving on any open socket.
NextFrames ==
  \/ \E ctorOk \in UrlAccepted : Connect(ctorOk)
  \/ Disconnect
  \/ SetupWebSocket("workers")
  \/ \E s \in Sockets : SockOpen(s)
  \/ \E s \in Sockets : \E m \in WorkersMessages(Pages) : SockMessage(s, m)

SpecFrames == Init /\ [][NextFrames]_vars

\* ------------------------------------------------------------- the router
\* The message router with both stores' handlers: the connection is opened
\* once, the views call setupWebSocket(), and frames of every kind arrive,
\* among them frames that do not parse and frames without a type.
NextRouter ==
  \/ \E st \in {"workers", "queue"} : SetupWebSocket(st)
  \/ \E ctorOk \in UrlAccepted : ws = 0 /\ Connect(ctorOk)
  \/ \E s \in Sockets : SockOpen(s)
  \/ \E s \in Sockets : \E m \in WorkersMessages(Pages) : SockMessage(s, m)
  \/ \E s \in Sockets : \E m \in QueueMessages(Pages) : SockMessage(s, m)
  \/ \E s \in Sockets : \E m \in Unroutable : SockMessage(s, m)

SpecRouter == Init /\ [][NextRouter]_vars

\* ------------------------------------------------- workers: derived views
\* a worker as the views read it: id, idle, paused
WorkerRecords(id) ==
  {[id |-> id, idle |-> i, paused |-> p] : i \in BOOLEAN, p \in BOOLEAN}

\* workers collections: workers 1 .. n, each in any of its states
WorkerPages ==
  UNION {{f \in [1 .. n -> UNION {WorkerRecords(id) : id \in 1 .. n}] :
            \A i \in 1 .. n : f[i].id = i} : n \in 0 .. MaxItem}

\* variant: a paused worker that is not idle still counts as active
MutActiveIgnoresPaused(w) == SelectSeq(w, LAMBDA x : ~x.idle)

\* the computed views of the workers store
activeWorkers(w) == SelectSeq(w, LAMBDA x : ~x.idle /\ ~x.paused)

idleWorkers(w) == SelectSeq(w, LAMBDA x : x.idle)

pausedWorkers(w) == SelectSeq(w, LAMBDA x : x.paused)

\* getStatusText(worker) of the workers view
getStatusText(worker) ==
  IF worker.paused THEN "Paused"
  ELSE IF worker.idle THEN "Idle"
  ELSE "Active"

\* The workers store fed with workers that carry their flags: the workers
\* view calls fetchWorkers(), setupWebSocket() and connect(), the fetch is
\* answered, the socket opens, and workers frames arrive.
NextViews ==
  \/ Fetch("workers", 0)
  \/ \E r \in reqs : \E resp \in Responses(r.store, WorkerPages) :
       FetchDone(r, resp, TRUE)
  \/ SetupWebSocket("workers")
  \/ \E ctorOk \in UrlAccepted : ws = 0 /\ Connect(ctorOk)
  \/ \E s \in Sockets : SockOpen(s)
  \/ \E s \in Sockets :
       \E m \in WorkersMessages(WorkerPages) : SockMessage(s, m)

SpecViews == Init /\ [][NextViews]_vars

\* ------------------------------------------------------ overlapping fetches
\* The stores' fetches as the application starts them: init() fetches all
\* three stores, and a view that mounts meanwhile (or pauseWorker /
\* resumeWorker re-fetching) fetches a store again; the responses arrive in
\* any order, each a failure or a well-formed page.
NextOverlap ==
  \/ AppInit
  \/ \E st \in Stores : Fetch(st, 0)
  \/ \E r \in reqs : \E resp \in Responses(r.store, Pages) :
       (resp.ok => resp.data # None /\ (r.store \in Paged => resp.total # None))
         /\ FetchDone(r, resp, TRUE)

SpecOverlap == Init /\ [][NextOverlap]_vars

\* ------------------------------------------------------- automatic retry
\* The client while disconnect() is never called: views call connect(),
\* sockets open and close, reconnect timers fire.
NextRetry ==
  \/ \E ctorOk \in UrlAccepted : Connect(ctorOk)
  \/ \E t \in TimerIds, ctorOk \in UrlAccepted : TimerFire(t, ctorOk)
  \/ \E s \in Sockets : SockOpen(s)
  \/ \E s \in Sockets : SockClose(s)

\* a connection attempt is resolved: the socket opens or fails
SockSettle(s) == readyState[s] = "CONNECTING" /\ (SockOpen(s) \/ SockClose(s))

\* The event loop runs every timeout that is due, and every connection attempt
\* ends in an open or a close event. Nothing obliges a view to call connect()
\* or an open connection to close.
SpecRetry ==
  /\ Init
  /\ [][NextRetry]_vars
  /\ WF_vars(\E t \in TimerIds, ctorOk \in UrlAccepted : TimerFire(t, ctorOk))
  /\ \A s \in Sockets : WF_vars(SockSettle(s))

\* ------------------------------------------------------------- the queue
\* The queue store as the queue view drives it: fetchQueue of the first page
\* and its response, the store's push messages on the connection (opened
\* once), and deleteTask of a task the view shows, with its response. The
\* backend's answers and messages are complete: they carry the page and its
\* total.
NextQueue ==
  \/ reqs = {} /\ Fetch("queue", 0)
  \/ \E r \in reqs : \E resp \in Responses(r.store, Pages) :
       (resp.ok => resp.data # None /\ resp.total # None)
         /\ FetchDone(r, resp, TRUE)
  \/ SetupWebSocket("queue")
  \/ \E ctorOk \in UrlAccepted : ws = 0 /\ Connect(ctorOk)
  \/ \E s \in Sockets : \E m \in QueueMessages(Pages) :
       /\ m.body # None
       /\ m.body[1].results # None
       /\ m.body[1].recordsTotal # None
       /\ SockMessage(s, m)
  \/ \E s \in Sockets : SockOpen(s)
  \/ \E id \in Range(tasks["queue"]) : DeleteTask(id)
  \/ \E d \in deletes, ok \in BOOLEAN : DeleteDone(d, ok)

SpecQueue == Init /\ [][NextQueue]_vars

\* ------------------------------------------------------ throwing handlers
\* The router with the stores' handlers and handlers that throw: on() and
\* setupWebSocket() are called in any order, the connection is opened once,
\* and push messages arrive.
NextThrow ==
  \/ \E type \in MessageTypes : On(type)
  \/ \E st \in {"workers", "queue"} : SetupWebSocket(st)
  \/ \E ctorOk \in UrlAccepted : ws = 0 /\ Connect(ctorOk)
  \/ \E s \in Sockets : SockOpen(s)
  \/ \E s \in Sockets : \E m \in WorkersMessages(Pages) : SockMessage(s, m)
  \/ \E s \in Sockets : \E m \in QueueMessages(Pages) : SockMessage(s, m)

SpecThrow == Init /\ [][NextThrow]_vars

\* ---------------------------------------------------------------- claims
\* the replay the claim expects at the open event of socket s: one
\* start_<name> per desired stream, on that socket
ReplayOn(s) ==
  {[sock |-> s, command |-> Command("start", activeStreams[i])] :
     i \in 1 .. Len(activeStreams)}

\* C1: at the open event of a connection made after a connection was lost,
\* exactly one start_<name> is transmitted for each stream desired at that
\* moment, and none for any other stream.
C1_ReplayOncePerDesiredStream ==
  (last.op = "onopen" /\ last.note = "reconnection") =>
    /\ Len(tx) = Len(activeStreams)
    /\ Range(tx) = ReplayOn(last.arg)

\* C2: in every connection state the desired-stream set is the result of
\* applying the startStream / stopStream calls as idempotent set-add and
\* set-remove (the history variable desired), without duplicates.
C2_DesiredSetIsSetAlgebra ==
  /\ Range(activeStreams) = desired
  /\ Len(activeStreams) = Cardinality(desired)

\* a stop of a name that is not desired, issued while connecting, with another
\* stream desired
C2_Witness ==
  /\ last.op = "stopStream"
  /\ last.note = "absent"
  /\ ws # 0
  /\ readyState[ws] = "CONNECTING"
  /\ desired # {}

\* C3: at most one reconnect timer is outstanding and it is the one the client
\* holds; a non-manual close (a close event handled while the client is not
\* manually closed) leaves exactly one timer outstanding, the pending one when
\* there was one; after disconnect() no timer is outstanding, so the
\* scheduled reconnect cannot occur.
C3_SingleReconnectTimer ==
  /\ [](/\ Cardinality(pendingTimers) <= 1
        /\ pendingTimers = IF reconnectTimer = 0 THEN {} ELSE {reconnectTimer})
  /\ [][(last'.op = "onclose" /\ last'.note # "manual") =>
          /\ Cardinality(pendingTimers') = 1
          /\ pendingTimers # {} => pendingTimers' = pendingTimers]_vars
  /\ [][last'.op = "disconnect" =>
          pendingTimers' = {} /\ reconnectTimer' = 0]_vars

\* disconnect() has just cancelled a scheduled reconnect
C3_Witness ==
  /\ last.op = "disconnect"
  /\ last.note = "timer cleared"
  /\ pendingTimers = {}

\* C4: the close event of a connection that disconnect() closed schedules no
\* reconnect attempt, whatever was called in between.
C4_ManualCloseSchedulesNothing ==
  [][(last'.op = "onclose" /\ last'.arg \in closedByDisconnect) =>
       pendingTimers' \subseteq pendingTimers]_vars

\* C5: an init() one of whose fetches failed ends with boot = error, a
\* message stored and nothing done to the connection; an init() ends with
\* boot = ready only when all its fetches succeeded.
C5_FailedFetchEndsInError ==
  [][/\ last'.then = "init ends, a fetch failed" =>
          /\ boot' = "error"
          /\ appError' # ""
          /\ ws' = ws
          /\ readyState' = readyState
     /\ (last'.then # "" /\ boot' = "ready") =>
          last'.then = "init ends, all fetched"]_vars

\* C6: init() called while boot is loading or ready changes nothing of the
\* program's state: no fetch is issued (the requests in flight stay the ones
\* of the first call), nothing is transmitted.
C6_InitIsNoOpWhileLoadingOrReady ==
  [][(last'.op = "init" /\ boot \in {"loading", "ready"}) =>
       (UNCHANGED progVars /\ tx' = << >>)]_vars

\* a second init() while the first is loading with its three fetches in flight
C6_Witness ==
  /\ last.op = "init"
  /\ last.note = "no-op"
  /\ boot = "loading"
  /\ {r.store : r \in reqs} = Stores
  /\ Cardinality(reqs) = Cardinality(Stores)

\* C7: init() called in boot = error moves to loading, clears the message and
\* issues a new fetch for every store (ready is then reachable: the witness).
C7_ErrorIsRetryable ==
  [][(boot = "error" /\ last'.op = "init") =>
       /\ boot' = "loading"
       /\ appError' = ""
       /\ \A st \in Stores : \E r \in reqs' \ reqs : r.store = st]_vars

\* ready, reached by an init() that was called in boot = error
C7_Witness ==
  /\ boot = "ready"
  /\ retried
  /\ last.then = "init ends, all fetched"

\* C8: boot changes only along idle -> loading and error -> loading (by
\* init()), loading -> ready, loading -> error, and any -> idle (by reset()).
C8_BootEdges ==
  [][\/ boot' = boot
     \/ boot' = "idle" /\ last'.op = "reset"
     \/ boot \in {"idle", "error"} /\ boot' = "loading" /\ last'.op = "init"
     \/ boot = "loading" /\ boot' \in {"ready", "error"}]_vars

\* C9 as stated: when init() reaches ready, the workers and the queue store
\* have a handler registered and their streams are desired.
C9_ReadyImpliesStreamsActive ==
  [][(last'.then # "" /\ boot' = "ready") =>
       /\ \A t \in MessageTypes : messageHandlers'[t] # << >>
       /\ StreamNames \subseteq Range(activeStreams')]_vars

\* C9 amended: when init() reaches ready it has called connect(), so the
\* client holds a connection that is connecting or open; init() itself
\* registers no handler and adds no stream: handlers change only in a
\* setupWebSocket call.
C9_ReadyMeansConnectCalled ==
  /\ [][(last'.then # "" /\ boot' = "ready") =>
          /\ ws' # 0
          /\ readyState'[ws'] \in {"CONNECTING", "OPEN"}
          /\ messageHandlers' = messageHandlers
          /\ activeStreams' = activeStreams]_vars
  /\ [][messageHandlers' # messageHandlers => last'.op = "setupWebSocket"]_vars

\* init() has reached ready with the connection being made, the workers store
\* set up by a view and the queue store not
C9_Witness ==
  /\ last.then = "init ends, all fetched"
  /\ boot = "ready"
  /\ ws # 0
  /\ readyState[ws] = "CONNECTING"
  /\ messageHandlers["workers"] # << >>
  /\ messageHandlers["pending_tasks_info"] = << >>

\* the collection of the store a message type or a store name refers to
CollectionOf(x) == IF x = "workers" THEN workers ELSE tasks["queue"]

\* C10: after a push message with a payload was applied, the store's
\* collection is that payload, and after a successful fetch of the workers or
\* the queue store it is the fetched page: whichever of the two completed
\* last is what the collection holds, with nothing of the other.
C10_LastCompletedWins ==
  /\ (last.op = "onmessage" /\ last.note = "applied") =>
        CollectionOf(last.arg) = rx.data
  /\ (last.op = "fetchDone" /\ last.note = "ok") =>
        CollectionOf(last.arg) = rx.data

\* a push message with a non-empty payload was applied while a fetch of the
\* same store was in flight
C10_Witness ==
  /\ last.op = "onmessage"
  /\ last.note = "applied"
  /\ \E r \in reqs : TypeOf(r.store) = last.arg
  /\ rx.data # << >>
  /\ loading[IF last.arg = "workers" THEN "workers" ELSE "queue"]

\* the collection of store st, given the workers and the tasks
CollOf(w, tk, st) == IF st = "workers" THEN w ELSE tk[st]

\* C11 as stated: a store's collection changes only by becoming the payload
\* just received (a REST page or a push snapshot), and every successful fetch
\* makes the collection the fetched page.
C11_CollectionIsLastPayload ==
  [][/\ \A st \in Stores :
          CollOf(workers', tasks', st) # CollOf(workers, tasks, st) =>
            /\ last'.op \in {"fetchDone", "onmessage"}
            /\ CollOf(workers', tasks', st) = rx'.data
     /\ (last'.op = "fetchDone" /\ last'.note = "ok") =>
          CollOf(workers', tasks', last'.arg) = rx'.data]_vars

\* C11 amended: a collection changes only by a successful fetch, a push
\* snapshot or a confirmed deleteTask. The fetch and the snapshot make it the
\* payload, except that a history fetch with start > 0 appends the page; the
\* deleteTask removes the task with that id from the queue's collection.
C11_CollectionIsLastPayloadOrDerived ==
  [][/\ \A st \in Stores :
          CollOf(workers', tasks', st) # CollOf(workers, tasks, st) =>
            \/ /\ last'.op = "onmessage"
               /\ CollOf(workers', tasks', st) = rx'.data
            \/ /\ last'.op = "fetchDone"
               /\ last'.note = "ok"
               /\ last'.arg = st
            \/ /\ last'.op = "deleteDone"
               /\ last'.note = "ok"
               /\ st = "queue"
               /\ tasks'[st] = SelectSeq(tasks[st], LAMBDA x : x # last'.arg)
     /\ (last'.op = "fetchDone" /\ last'.note = "ok") =>
          \A r \in reqs \ reqs' :
            CollOf(workers', tasks', r.store) =
              IF r.store = "history" /\ r.start > 0
              THEN tasks[r.store] \o rx'.data
              ELSE rx'.data]_vars

\* a "load more" page was appended to a non-empty history
C11_Witness ==
  /\ last.op = "fetchDone"
  /\ last.note = "ok"
  /\ last.arg = "history"
  /\ rx.data # << >>
  /\ Len(tasks["history"]) > Len(rx.data)

\* no two entries of the collection have the same id
NoDup(tk) == \A i, j \in 1 .. Len(tk) : tk[i] = tk[j] => i = j

\* C12: a successful fetch of the queue or the history store with start = 0
\* makes the collection the returned page; with start > 0 it keeps the
\* entries the collection has, adds those of the page after them, and gives
\* no id a second entry.
C12_FirstPageReplacesLaterPagesAppend ==
  [][(last'.op = "fetchDone" /\ last'.note = "ok" /\ last'.arg \in Paged) =>
       \A r \in reqs \ reqs' :
         LET old == tasks[r.store]
             new == tasks'[r.store]
         IN /\ r.start = 0 => new = rx'.data
            /\ r.start > 0 =>
                 /\ Len(new) >= Len(old)
                 /\ SubSeq(new, 1, Len(old)) = old
                 /\ Range(new) = Range(old) \cup Range(rx'.data)
                 /\ NoDup(old) => NoDup(new)]_vars

\* the fixed message of a store's failed fetch
FixedMessage(st) ==
  CASE st = "workers" -> "Failed to fetch workers"
    [] st = "queue" -> "Failed to fetch queue"
    [] st = "history" -> "Failed to fetch history"

\* C13: the step that delivers the failure of a store's fetch leaves every
\* collection and every total as it was, sets the store's error slot to its
\* fixed message and clears its loading flag.
C13_FailedFetchKeepsData ==
  [][(last'.op = "fetchDone" /\ last'.note = "failed") =>
       /\ workers' = workers
       /\ tasks' = tasks
       /\ totalTasks' = totalTasks
       /\ error'[last'.arg] = FixedMessage(last'.arg)
       /\ loading'[last'.arg] = FALSE]_vars

\* the queue fetch failed while the queue showed a task and a count
C13_Witness ==
  /\ last.op = "fetchDone"
  /\ last.note = "failed"
  /\ last.arg = "queue"
  /\ tasks["queue"] # << >>
  /\ totalTasks["queue"] > 0
  /\ error["queue"] = "Failed to fetch queue"
  /\ ~loading["queue"]

C15_NoDispatchAfterDisconnect ==
  [][(isManualClose /\ last'.op = "onmessage") =>
       /\ last'.note \in {"discarded", "no handler"}
       /\ workers' = workers
       /\ tasks' = tasks
       /\ totalTasks' = totalTasks]_vars

\* C16: disconnect() leaves the desired-stream set empty and, if the
\* connection was open, has sent exactly one stop_<name> on it for each stream
\* that was desired (nothing otherwise); whenever a socket opens afterwards,
\* the only frames replayed are start_<name> for streams started since the
\* last disconnect() and not stopped.
C16_DisconnectStopsAllStreams ==
  [][/\ last'.op = "disconnect" =>
          /\ activeStreams' = << >>
          /\ tx' = IF ws # 0 /\ readyState[ws] = "OPEN"
                   THEN [i \in 1 .. Len(activeStreams) |->
                           [sock |-> ws,
                            command |-> <<"stop", activeStreams[i]>>]]
                   ELSE << >>
     /\ last'.op = "onopen" =>
          \A i \in 1 .. Len(tx') :
            /\ tx'[i].command[1] = "start"
            /\ tx'[i].command[2] \in desired]_vars

\* disconnect() on an open connection with two desired streams sent two stops
C16_Witness ==
  /\ last.op = "disconnect"
  /\ Len(tx) = 2
  /\ activeStreams = << >>

\* the calls that issue a command, and the verbs each can put on the wire
Issues(op) ==
  CASE op = "startStream" -> {"start"}
    [] op = "stopStream" -> {"stop"}
    [] op = "disconnect" -> {"stop"}
    [] op = "dismissMessage" -> {"dismiss_message"}
    [] OTHER -> {}

\* C17: a call that issues a command while the current connection is not
\* open transmits nothing and completes; a frame is transmitted only in the
\* step of the call that issues it, on an open connection, or as a replay of
\* start_<name> for a stream still desired when a socket opens, so a command
\* that was dropped is never transmitted later.
C17_CommandWhileClosedIsDropped ==
  [][/\ (Issues(last'.op) # {} /\ ~isConnected(ws, readyState)) => tx' = << >>
     /\ \A i \in 1 .. Len(tx') :
          \/ /\ tx'[i].command[1] \in Issues(last'.op)
             /\ isConnected(ws, readyState)
             /\ tx'[i].sock = ws
          \/ /\ last'.op = "onopen"
             /\ tx'[i].command[1] = "start"
             /\ tx'[i].command[2] \in Range(activeStreams)]_vars

\* dismissMessage() was called while the connection was still being
\* established, and nothing was transmitted
C17_Witness ==
  /\ last.op = "dismissMessage"
  /\ last.note = "dropped"
  /\ ws # 0
  /\ readyState[ws] = "CONNECTING"
  /\ tx = << >>

\* C18: a frame that does not parse, or that parses but has no type, calls
\* no handler and changes nothing of the client, the stores or the bootstrap
\* state: the socket stays open, and the desired-stream set, the reconnect
\* timer, the manual-close flag, the handler registry and the collections are
\* what they were.
C18_UnroutableFrameIsDiscarded ==
  [][(last'.op = "onmessage" /\ last'.arg \in {"(malformed)", "(none)"}) =>
       /\ calls' = << >>
       /\ last'.note = "discarded"
       /\ UNCHANGED <<ws, readyState, isManualClose, reconnectTimer,
                      pendingTimers, activeStreams, messageHandlers>>
       /\ UNCHANGED <<workers, tasks, totalTasks, loading, error, boot,
                      appError>>]_vars

\* a frame that does not parse arrived on the open connection while both
\* stores had a handler registered and the workers store showed a worker
C18_Witness ==
  /\ last.op = "onmessage"
  /\ last.arg = "(malformed)"
  /\ ws # 0
  /\ readyState[ws] = "OPEN"
  /\ messageHandlers["workers"] # << >>
  /\ messageHandlers["pending_tasks_info"] # << >>
  /\ workers # << >>

C19_ConnectWhileOpenIsNoOp ==
  [][(last'.op = "connect" /\ isConnected(ws, readyState)) =>
       /\ ws' = ws
       /\ readyState' = readyState
       /\ isManualClose' = isManualClose
       /\ reconnectTimer' = reconnectTimer
       /\ pendingTimers' = pendingTimers
       /\ activeStreams' = activeStreams
       /\ messageHandlers' = messageHandlers
       /\ tx' = << >>]_vars

\* connect() was called on an open connection on which a stream is desired
C19_Witness ==
  /\ last.op = "connect"
  /\ last.note = "already open"
  /\ ws # 0
  /\ readyState[ws] = "OPEN"
  /\ activeStreams # << >>

\* the derived views a worker of collection w appears in
ViewsOf(x, w) ==
  {v \in {"active", "idle", "paused"} :
     x \in Range(CASE v = "active" -> activeWorkers(w)
                   [] v = "idle" -> idleWorkers(w)
                   [] v = "paused" -> pausedWorkers(w))}

\* C21: every worker of the collection appears in exactly one of
\* activeWorkers, idleWorkers and pausedWorkers, and a paused worker appears
\* in pausedWorkers only, also when it is idle.
C21_ViewsPartitionWorkers ==
  \A i \in 1 .. Len(workers) :
    /\ Cardinality(ViewsOf(workers[i], workers)) = 1
    /\ workers[i].paused => ViewsOf(workers[i], workers) = {"paused"}

\* ids of the workers a view holds
IdsOf(view) == {view[i].id : i \in 1 .. Len(view)}

\* C22: when a workers push is applied to the store, every worker it carries
\* with idle = false and paused = false is in activeWorkers; and a worker
\* that was active and that the push carries with idle = false and
\* paused = true is then in pausedWorkers and in neither activeWorkers nor
\* idleWorkers.
C22_PushMovesActiveToPaused ==
  [][(last'.op = "onmessage" /\ last'.note = "applied") =>
       \A i \in 1 .. Len(rx'.data) :
         LET x == rx'.data[i]
         IN /\ (~x.idle /\ ~x.paused) => x.id \in IdsOf(activeWorkers(workers'))
            /\ (/\ x.id \in IdsOf(activeWorkers(workers))
                /\ ~x.idle
                /\ x.paused) =>
                 /\ x.id \in IdsOf(pausedWorkers(workers'))
                 /\ x.id \notin IdsOf(activeWorkers(workers'))
                 /\ x.id \notin IdsOf(idleWorkers(workers'))]_vars

\* a push carrying worker 1 as paused and not idle has been applied
C22_Witness ==
  /\ last.op = "onmessage"
  /\ last.note = "applied"
  /\ rx.data = <<[id |-> 1, idle |-> FALSE, paused |-> TRUE]>>
  /\ IdsOf(pausedWorkers(workers)) = {1}
  /\ IdsOf(activeWorkers(workers)) = {}
  /\ IdsOf(idleWorkers(workers)) = {}

\* C23: right after a fetch of a store has succeeded, if no fetch of that
\* store is in flight any more, the store's error slot is null.
C23_ErrorExcludesSuccess ==
  (/\ last.op = "fetchDone"
   /\ last.note = "ok"
   /\ \A r \in reqs : r.store # last.arg) => error[last.arg] = Null

\* C28: a store's loading flag is true as long as a fetch of that store is
\* in flight.
C28_LoadingWhileFetchInFlight ==
  \A st \in Stores : (\E r \in reqs : r.store = st) => loading[st]

\* C24: while disconnect() is not called, whenever the client's current
\* connection has closed, the client eventually has a current connection that
\* is being attempted or is open again.
C24_ClosedLeadsToAttempt ==
  (ws # 0 /\ readyState[ws] = "CLOSED")
    ~> (ws # 0 /\ readyState[ws] \in {"CONNECTING", "OPEN"})

\* sockets that are connecting or open: their events reach the client
LiveSockets == {s \in Sockets : readyState[s] \in {"CONNECTING", "OPEN"}}

\* C25: at every moment at most one socket whose events the client handles is
\* connecting or open.
C25_OneLiveConnection == Cardinality(LiveSockets) <= 1

\* C26: whenever the client's current socket is open (its open event has
\* been handled), the streams running at the backend on that connection,
\* those started and not stopped since by the frames received on it, are
\* exactly the desired streams.
C26_BackendStreamsAreDesired ==
  (ws # 0 /\ readyState[ws] = "OPEN") => server[ws] = Range(activeStreams)

\* after a reconnection the backend runs both desired streams again
C26_Witness ==
  /\ last.op = "onopen"
  /\ last.note = "reconnection"
  /\ ws # 0
  /\ readyState[ws] = "OPEN"
  /\ server[ws] = StreamNames

\* C27: however often setupWebSocket() has been called, at most one handler
\* is registered per message type, and a frame is given to at most one
\* handler.
C27_OneHandlerPerStore ==
  /\ \A type \in MessageTypes : Len(messageHandlers[type]) <= 1
  /\ Len(calls) <= 1

\* C29: the queue store's totalTasks is never negative.
C29_TotalNeverNegative == totalTasks["queue"] >= 0

\* C30: when a frame arrives for a type one of whose handlers throws, every
\* handler registered for the type is still called, in order, the sockets
\* keep their states, and the reconnect timer and the desired-stream set are
\* unchanged.
C30_ThrowDoesNotStopDispatch ==
  [][(/\ last'.op = "onmessage"
      /\ last'.arg \in MessageTypes
      /\ Thrower \in Range(messageHandlers[last'.arg])) =>
       /\ Len(calls') = Len(messageHandlers[last'.arg])
       /\ \A i \in 1 .. Len(calls') :
            calls'[i].handler = messageHandlers[last'.arg][i]
       /\ readyState' = readyState
       /\ reconnectTimer' = reconnectTimer
       /\ pendingTimers' = pendingTimers
       /\ activeStreams' = activeStreams]_vars

====
